---------------------------- MODULE Spec2Model ----------------------------
(***************************************************************************)
(* The hiring-signals batch pipeline: ingestion (raw_jobs_asset), the      *)
(* Normalizer (cleaned_jobs_asset), the Tech Detector & Aggregator         *)
(* (company_stats_asset) and the Lead Scorer (lead_scores_asset), over the *)
(* tables raw_jobs, tech_config, cleaned_jobs, company_stats, lead_scores. *)
(*                                                                         *)
(* Conventions.  A VARCHAR on which the code does character work (company, *)
(* title, description, location, tech names, keywords) is a sequence of    *)
(* one-character strings.  A nullable column is <<>> for NULL and <<v>>    *)
(* for the value v.  Dates are day numbers whose day 0 is a Monday.        *)
(* Scores are kept in hundredths (the code rounds them to 2 decimals).     *)
(***************************************************************************)
EXTENDS Integers, Sequences, FiniteSets, TLC

VARIABLES raw_jobs, tech_config, cleaned_jobs, company_stats, lead_scores,
          outcome

vars == <<raw_jobs, tech_config, cleaned_jobs, company_stats, lead_scores,
          outcome>>

----------------------------------------------------------------------------
(* Bounds of the model.                                                     *)

\* scraped_at values a scraped batch may carry: 1..MaxTime
MaxTime == 2
\* jobs in one scraped batch: 1..MaxBatch
MaxBatch == 2

----------------------------------------------------------------------------
(* Nullable values.                                                         *)

NULL == <<>>
Some(v) == <<v>>
IsNull(o) == o = <<>>
\* fill_null / COALESCE
Coalesce(o, d) == IF o = <<>> THEN d ELSE o[1]

----------------------------------------------------------------------------
(* Strings as sequences of characters.                                      *)

UpperChars == <<"A","B","C","D","E","F","G","H","I","J","K","L","M",
                "N","O","P","Q","R","S","T","U","V","W","X","Y","Z">>
LowerChars == <<"a","b","c","d","e","f","g","h","i","j","k","l","m",
                "n","o","p","q","r","s","t","u","v","w","x","y","z">>

LowerOf == [i \in 1..Len(UpperChars) |-> LowerChars[i]]
UpperSet == {UpperChars[i] : i \in 1..Len(UpperChars)}
UpperIndex == [c \in UpperSet |-> CHOOSE i \in 1..Len(UpperChars) : UpperChars[i] = c]

LowerChar(c) == IF c \in UpperSet THEN LowerOf[UpperIndex[c]] ELSE c

\* str.to_lowercase() / SQL LOWER()
Lower(s) == [i \in 1..Len(s) |-> LowerChar(s[i])]

IsSpace(c) == c = " "

RECURSIVE LStrip(_)
LStrip(s) == IF s # <<>> /\ IsSpace(Head(s)) THEN LStrip(Tail(s)) ELSE s

RECURSIVE RStrip(_)
RStrip(s) == IF s # <<>> /\ IsSpace(s[Len(s)])
             THEN RStrip(SubSeq(s, 1, Len(s) - 1)) ELSE s

\* str.strip_chars(): leading and trailing whitespace removed
Trim(s) == RStrip(LStrip(s))

\* s LIKE '%' || sub || '%'  (sub without wildcard characters)
Contains(s, sub) ==
    \E i \in 0..(Len(s) - Len(sub)) : SubSeq(s, i + 1, i + Len(sub)) = sub

Min(S) == CHOOSE x \in S : \A y \in S : x <= y
Max(S) == CHOOSE x \in S : \A y \in S : x >= y

\* the characters in use, in byte order (the order of ORDER BY on a VARCHAR)
CharOrder == <<" ", ",", ".",
               "A","B","C","D","E","F","G","H","I","J","K","L","M",
               "N","O","P","Q","R","S","T","U","V","W","X","Y","Z",
               "a","b","c","d","e","f","g","h","i","j","k","l","m",
               "n","o","p","q","r","s","t","u","v","w","x","y","z", "|">>
CharRankOf == [c \in {CharOrder[i] : i \in 1..Len(CharOrder)} |->
                  CHOOSE i \in 1..Len(CharOrder) : CharOrder[i] = c]
CharRank(c) == CharRankOf[c]

RECURSIVE StrLess(_, _)
StrLess(a, b) ==
    IF b = <<>> THEN FALSE
    ELSE IF a = <<>> THEN TRUE
    ELSE IF Head(a) = Head(b) THEN StrLess(Tail(a), Tail(b))
    ELSE CharRank(Head(a)) < CharRank(Head(b))

\* LIST(DISTINCT x ORDER BY x): the strings of S in ascending order
RECURSIVE SortedList(_)
SortedList(S) ==
    IF S = {} THEN <<>>
    ELSE LET m == CHOOSE x \in S : \A y \in S \ {x} : StrLess(x, y)
         IN  <<m>> \o SortedList(S \ {m})

\* list.join(sep)
RECURSIVE Join(_, _)
Join(list, sep) ==
    IF list = <<>> THEN <<>>
    ELSE IF Len(list) = 1 THEN list[1]
    ELSE list[1] \o sep \o Join(Tail(list), sep)

\* ROUND(n / d, 0) for d > 0: halves away from zero
RoundDiv(n, d) ==
    IF n >= 0 THEN (2 * n + d) \div (2 * d)
    ELSE -((2 * (-n) + d) \div (2 * d))


----------------------------------------------------------------------------
(* The scraped postings the ingestion stage may be handed (the scraper is  *)
(* an external collaborator): a small catalogue of concrete job dicts.     *)

Str_Ab       == <<"A","b">>
Str_AB_lead  == <<" ","A","B">>
Str_AB       == <<"A","B">>
Str_go_dev   == <<"g","o"," ","d","e","v">>
Str_Go_Dev_t == <<"G","o"," ","D","e","v"," ">>
Str_qa       == <<"q","a">>
Str_sr_go    == <<"s","r","."," ","g","o">>
Str_pm       == <<"p","m">>
Str_py       == <<"p","y">>
Str_go       == <<"g","o">>
Str_T        == <<"T">>
Str_Go       == <<"G","o">>
Str_Py       == <<"P","y">>
Str_golang   == <<"g","o","l","a","n","g">>
Str_empty    == <<>>
Str_cd       == <<"c","d">>
Str_Cd       == <<"C","d">>
Str_Senior_Lead == <<"S","e","n","i","o","r"," ","L","e","a","d">>
Str_jr_lead  == <<"j","r","."," ","l","e","a","d">>
Str_principal == <<"p","r","i","n","c","i","p","a","l">>
Str_go_py    == <<"g","o"," ","p","y">>

Posting(id, co, ti, de, lo, pd, u, so) ==
    [job_id |-> id, company |-> co, title |-> ti, description |-> de,
     location |-> lo, posting_date |-> pd, url |-> u, source |-> so]

P1 == Posting(1, Str_Ab, Str_go_dev, NULL, NULL, Some(0), "u1", "indeed")
P2 == Posting(2, Str_Ab, Str_qa, NULL, Some(Str_T), Some(1), "u2", "indeed")
P3 == Posting(3, Str_Ab, Str_sr_go, Some(Str_py), Some(Str_T), Some(7), "u3", "indeed")
P4 == Posting(4, Str_AB, Str_pm, NULL, Some(Str_T), Some(2), "u4", "indeed")
\* the same dedup key as P1 under other spellings, an empty (not null) location
P5 == Posting(5, Str_AB_lead, Str_Go_Dev_t, Some(Str_go), Some(Str_empty), NULL, "u5", "rss")

\* postings of the pipeline runs (several weeks, two spellings of one company)
\* job 1 as the source lists it after an edit: the job_id of P1, other fields changed
P6 == Posting(1, Str_AB, Str_pm, Some(Str_py), Some(Str_T), Some(7), "u6", "rss")

\* a posting with capitals in its title and its description
P7 == Posting(7, Str_Cd, Str_Go_Dev_t, Some(Str_Py), NULL, Some(0), "u7", "indeed")

\* the title and company of P1 at another location
P8 == Posting(8, Str_Ab, Str_go_dev, NULL, Some(Str_T), Some(0), "u8", "indeed")

\* one company and week, titles with one or two of the seniority patterns
Q1 == Posting(11, Str_Ab, Str_Senior_Lead, Some(Str_go_py), NULL, Some(0), "u11", "indeed")
Q2 == Posting(12, Str_Ab, Str_jr_lead, Some(Str_go), NULL, Some(0), "u12", "indeed")
Q3 == Posting(13, Str_Ab, Str_principal, Some(Str_py), Some(Str_T), Some(0), "u13", "indeed")
Q4 == Posting(14, Str_Ab, Str_qa, Some(Str_py), Some(Str_T), Some(0), "u14", "indeed")

PipelinePostings == {P1, P2, P3, P4}
\* postings of the Normalizer runs (duplicates of one dedup key)
DedupPostings == {P1, P2, P5}

Scraped(p, t) ==
    [job_id |-> p.job_id, company |-> p.company, title |-> p.title,
     description |-> p.description, location |-> p.location,
     posting_date |-> p.posting_date, url |-> p.url, source |-> p.source,
     scraped_at |-> t]

\* the batches scrape_toronto_jobs may return: up to MaxBatch jobs of distinct
\* job_id, listed by job_id (over distinct job_ids the stage does the same for
\* every order of the list)
Batches(postings, times) ==
    UNION { { b \in [1..n -> {Scraped(p, t) : p \in postings, t \in times}] :
                \A i, j \in 1..n : i < j => b[i].job_id < b[j].job_id } :
            n \in 0..MaxBatch }

\* the batches with job_ids listed more than once as well: up to MaxBatch jobs,
\* two entries of one job_id differing in scraped_at
BatchesWithRepeats(entries) ==
    UNION { { b \in [1..n -> entries] :
                \A i, j \in 1..n : i # j => b[i] # b[j] } :
            n \in 0..MaxBatch }

----------------------------------------------------------------------------
(* What the last stage run returned: Output(value, metadata) or an error.  *)

Returned(op, value, diag) ==
    [op |-> op, status |-> "ok", value |-> value, diag |-> diag]
Raised(op, error) ==
    [op |-> op, status |-> "raised", value |-> 0, diag |-> error]

Init ==
    /\ raw_jobs = {}
    /\ tech_config = {}
    /\ cleaned_jobs = {}
    /\ company_stats = {}
    /\ lead_scores = {}
    /\ outcome = Returned("init", 0, "")

----------------------------------------------------------------------------
(* Ingestion: raw_jobs_asset.                                              *)

RawRow(job) ==
    [job_id |-> job.job_id, company |-> job.company, title |-> job.title,
     description |-> job.description, location |-> job.location,
     posting_date |-> job.posting_date, url |-> job.url, source |-> job.source,
     first_scraped_at |-> job.scraped_at, last_scraped_at |-> job.scraped_at]

Range(f) == {f[i] : i \in DOMAIN f}

\* an UPDATE that resets first_scraped_at along with last_scraped_at
UpdateBothScraped(rows, updates) ==
    { IF \E i \in DOMAIN updates : updates[i].job_id = r.job_id
      THEN LET last == Max({i \in DOMAIN updates : updates[i].job_id = r.job_id})
           IN  [r EXCEPT !.first_scraped_at = updates[last].scraped_at,
                         !.last_scraped_at = updates[last].scraped_at]
      ELSE r : r \in rows }

\* UPDATE raw_jobs SET last_scraped_at = ? WHERE job_id = ?, for each update row
\* in list order: the last update row of a job_id is the one that stays
UpdateLastScraped(rows, updates) ==
    { IF \E i \in DOMAIN updates : updates[i].job_id = r.job_id
      THEN LET last == Max({i \in DOMAIN updates : updates[i].job_id = r.job_id})
           IN  [r EXCEPT !.last_scraped_at = updates[last].scraped_at]
      ELSE r : r \in rows }

\* the positions of a list whose job_id an earlier position already holds
RepeatedPositions(jobs) ==
    {i \in DOMAIN jobs : \E k \in 1..(i - 1) : jobs[k].job_id = jobs[i].job_id}

\* The table raw_jobs is created from warehouse/schema.sql, which the stages do
\* not show: it may or may not declare job_id a key.  With no key the INSERT
\* stores every row of new_rows.  With a key the INSERT of a second row of one
\* job_id raises; the rows before it are stored or not, and the UPDATE that
\* follows is not reached.
raw_jobs_asset(jobs) ==
    LET existing_job_ids == {r.job_id : r \in raw_jobs} \cap {j.job_id : j \in Range(jobs)}
        new_jobs == SelectSeq(jobs, LAMBDA j : j.job_id \notin existing_job_ids)
        existing_jobs_data == SelectSeq(jobs, LAMBDA j : j.job_id \in existing_job_ids)
        repeated == RepeatedPositions(new_jobs)
    IN  IF Len(jobs) = 0
        THEN /\ outcome' = Returned("raw_jobs_asset", 0, "No jobs scraped")
             /\ UNCHANGED raw_jobs
        ELSE \/ /\ raw_jobs' = UpdateLastScraped(raw_jobs, existing_jobs_data)
                                  \cup {RawRow(j) : j \in Range(new_jobs)}
                /\ outcome' = Returned("raw_jobs_asset", Len(new_jobs), "")
             \/ /\ repeated # {}
                /\ \E stored \in {0, Min(repeated) - 1} :
                     raw_jobs' = raw_jobs \cup {RawRow(new_jobs[i]) : i \in 1..stored}
                /\ outcome' = Raised("raw_jobs_asset", "ConstraintException")

Ingest(postings, times) ==
    /\ \E jobs \in Batches(postings, times) : raw_jobs_asset(jobs)
    /\ UNCHANGED <<tech_config, cleaned_jobs, company_stats, lead_scores>>

----------------------------------------------------------------------------
(* The Normalizer: cleaned_jobs_asset.                                     *)

company_normalized(r) == Trim(Lower(r.company))
title_normalized(r) == Trim(Lower(r.title))

\* a key built from the company as scraped, not from company_normalized
dedup_key_unnormalized(r) ==
    r.company \o <<"|">> \o title_normalized(r) \o <<"|">>
        \o Coalesce(r.location, <<>>)

\* pl.concat_str([company_normalized, title_normalized, location.fill_null("")], "|")
dedup_key(r) ==
    company_normalized(r) \o <<"|">> \o title_normalized(r) \o <<"|">>
        \o Coalesce(r.location, <<>>)

\* any row of the group as its first row, the sort left out
AnyRowFirst(g) == g

\* The rows .sort("first_scraped_at") may put first in a group: the sort keeps
\* no order among rows of equal first_scraped_at.
FirstCandidates(g) ==
    {r \in g : \A q \in g : r.first_scraped_at <= q.first_scraped_at}

\* the aggregation with first_seen and last_seen taken from the first row
CleanedRowDatesOfFirst(rep, g) ==
    [job_id |-> rep.job_id, company |-> rep.company,
     company_normalized |-> company_normalized(rep),
     title |-> rep.title, title_normalized |-> title_normalized(rep),
     description |-> rep.description, location |-> rep.location,
     posting_date |-> rep.posting_date, url |-> rep.url, source |-> rep.source,
     first_seen |-> rep.first_scraped_at,
     last_seen |-> rep.last_scraped_at]

\* the .agg([...]) of one group whose first row is rep
CleanedRow(rep, g) ==
    [job_id |-> rep.job_id, company |-> rep.company,
     company_normalized |-> company_normalized(rep),
     title |-> rep.title, title_normalized |-> title_normalized(rep),
     description |-> rep.description, location |-> rep.location,
     posting_date |-> rep.posting_date, url |-> rep.url, source |-> rep.source,
     first_seen |-> Min({r.first_scraped_at : r \in g}),
     last_seen |-> Max({r.last_scraped_at : r \in g})]

\* the frames the groups of keys can aggregate to, one first row per group
RECURSIVE AggregateGroups(_, _)
AggregateGroups(keys, group) ==
    IF keys = {} THEN {{}}
    ELSE LET k == CHOOSE x \in keys : TRUE
         IN  { rest \cup {CleanedRow(rep, group[k])} :
               rest \in AggregateGroups(keys \ {k}, group),
               rep \in FirstCandidates(group[k]) }

\* every df_deduped the sort / group_by / agg of the frame can give
Deduplicate(rows) ==
    LET key == [r \in rows |-> dedup_key(r)]
        keys == {key[r] : r \in rows}
        group == [k \in keys |-> {r \in rows : key[r] = k}]
    IN  AggregateGroups(keys, group)

cleaned_jobs_asset ==
    /\ \E df_deduped \in Deduplicate(raw_jobs) :
         \* DELETE FROM cleaned_jobs, then the INSERT of every row
         /\ cleaned_jobs' = df_deduped
         /\ outcome' =
              IF Cardinality(raw_jobs) = 0
              THEN \* duplicates_removed / initial_count in the metadata
                   Raised("cleaned_jobs_asset", "ZeroDivisionError")
              ELSE Returned("cleaned_jobs_asset", Cardinality(df_deduped), "")
    /\ UNCHANGED <<raw_jobs, tech_config, company_stats, lead_scores>>

\* the rows of SELECT company_normalized, title_normalized, COUNT(*) FROM
\* cleaned_jobs GROUP BY company_normalized, title_normalized HAVING COUNT(*) > 1
duplicates(cleaned) ==
    LET key(c) == <<c.company_normalized, c.title_normalized>>
    IN  { <<k[1], k[2], Cardinality({c \in cleaned : key(c) = k})>> :
          k \in {key(c) : c \in {x \in cleaned :
                     \E y \in cleaned : y # x /\ key(y) = key(x)}} }

check_deduplication_effectiveness ==
    /\ LET duplicate_count == Cardinality(duplicates(cleaned_jobs))
           passed == duplicate_count = 0
       IN  outcome' = Returned("check_deduplication_effectiveness",
                               [passed |-> passed, duplicate_groups |-> duplicate_count],
                               IF passed THEN "" ELSE "ERROR")
    /\ UNCHANGED <<raw_jobs, tech_config, cleaned_jobs, company_stats, lead_scores>>

----------------------------------------------------------------------------
(* tech_config: the taxonomy operators edit from outside the pipeline.     *)

TechRow(name, kws, target, weight) ==
    [tech_name |-> name, keywords |-> kws, category |-> "language",
     is_target |-> target, score_weight |-> weight]

\* the rows an operator may insert (score_weight in whole units)
TechCatalogue ==
    { TechRow(Str_Go, <<Str_golang, Str_go>>, t, 1) : t \in BOOLEAN } \cup
    { TechRow(Str_Py, <<Str_py>>, t, w) : t \in BOOLEAN, w \in {0, 2} }

\* INSERT INTO tech_config VALUES (...): tech_name is unique
InsertTech(row) ==
    /\ \A t \in tech_config : t.tech_name # row.tech_name
    /\ tech_config' = tech_config \cup {row}

\* UPDATE tech_config SET is_target = flag WHERE tech_name = name
SetTarget(name, flag) ==
    /\ \E t \in tech_config : t.tech_name = name /\ t.is_target # flag
    /\ tech_config' = { IF t.tech_name = name THEN [t EXCEPT !.is_target = flag]
                        ELSE t : t \in tech_config }

ConfigureTech ==
    /\ \/ \E row \in TechCatalogue : InsertTech(row)
       \/ \E name \in {Str_Go, Str_Py}, flag \in BOOLEAN : SetTarget(name, flag)
    /\ outcome' = Returned("tech_config", 0, "")
    /\ UNCHANGED <<raw_jobs, cleaned_jobs, company_stats, lead_scores>>

----------------------------------------------------------------------------
(* The Tech Detector & Aggregator: company_stats_asset.                    *)

\* date_trunc('week', posting_date): the Monday of the date's week
week_start(d) == d - (d % 7)

\* WITH weekly_jobs AS (... WHERE posting_date IS NOT NULL)
weekly_jobs(cleaned) ==
    { [company_normalized |-> c.company_normalized, company |-> c.company,
       week_start |-> week_start(c.posting_date[1]), title |-> c.title,
       description |-> c.description, location |-> c.location] :
      c \in {x \in cleaned : ~IsNull(x.posting_date)} }

\* the CASE of job_tech_pairs
seniority_lead_first(title) ==
    LET t == Lower(title)
    IN  IF Contains(t, <<"l","e","a","d">>)
              \/ Contains(t, <<"p","r","i","n","c","i","p","a","l">>)
        THEN "Lead"
        ELSE IF Contains(t, <<"s","e","n","i","o","r">>) \/ Contains(t, <<"s","r",".">>)
        THEN "Senior"
        ELSE IF Contains(t, <<"j","u","n","i","o","r">>) \/ Contains(t, <<"j","r",".">>)
        THEN "Junior"
        ELSE "Mid-Level"

seniority(title) ==
    LET t == Lower(title)
    IN  IF Contains(t, <<"s","e","n","i","o","r">>) \/ Contains(t, <<"s","r",".">>)
        THEN "Senior"
        ELSE IF Contains(t, <<"j","u","n","i","o","r">>) \/ Contains(t, <<"j","r",".">>)
        THEN "Junior"
        ELSE IF Contains(t, <<"l","e","a","d">>)
                  \/ Contains(t, <<"p","r","i","n","c","i","p","a","l">>)
        THEN "Lead"
        ELSE "Mid-Level"

\* the CASE of companies_without_techs
fallback_seniority(title) ==
    LET t == Lower(title)
    IN  IF Contains(t, <<"s","e","n","i","o","r">>) THEN "Senior"
        ELSE IF Contains(t, <<"j","u","n","i","o","r">>) THEN "Junior"
        ELSE IF Contains(t, <<"l","e","a","d">>) THEN "Lead"
        ELSE "Mid-Level"

\* bool_or(LOWER(title) LIKE '%kw%' OR LOWER(COALESCE(description,'')) LIKE '%kw%')
\* over unnest(keywords); NULL (no keyword) is not true
has_tech(w, t) ==
    LET title == Lower(w.title)
        description == Lower(Coalesce(w.description, <<>>))
    IN  \E i \in DOMAIN t.keywords :
            \/ Contains(title, t.keywords[i])
            \/ Contains(description, t.keywords[i])

\* detected_techs: the (job, tech) pairs WHERE has_tech = true
detected_techs(cleaned, config) ==
    { [company_normalized |-> w.company_normalized, company |-> w.company,
       week_start |-> w.week_start, title |-> w.title, location |-> w.location,
       seniority |-> seniority(w.title), tech_name |-> t.tech_name] :
      <<w, t>> \in {p \in weekly_jobs(cleaned) \X config : has_tech(p[1], p[2])} }

GroupKey(r) == <<r.company_normalized, r.company, r.week_start>>

\* LIST(DISTINCT location ORDER BY location) FILTER (WHERE location IS NOT NULL)
LocationList(g) == SortedList({r.location[1] : r \in {x \in g : ~IsNull(x.location)}})

StatsRow(key, jobs, techs, locs, sen, jun, lead, mid) ==
    [company_normalized |-> key[1], company |-> key[2], week_start |-> key[3],
     jobs_posted |-> jobs, tech_array |-> techs, locations |-> locs,
     senior_count |-> sen, junior_count |-> jun, lead_count |-> lead,
     mid_count |-> mid]

\* aggregated_with_techs with COUNT(*) as jobs_posted
aggregated_with_techs_count_rows(cleaned, config) ==
    LET dt == detected_techs(cleaned, config)
        grp(k) == {r \in dt : GroupKey(r) = k}
        titles(g, s) == Cardinality({r.title : r \in {x \in g : x.seniority = s}})
    IN  { StatsRow(k, Cardinality(grp(k)),
                   SortedList({r.tech_name : r \in grp(k)}),
                   LocationList(grp(k)),
                   titles(grp(k), "Senior"), titles(grp(k), "Junior"),
                   titles(grp(k), "Lead"), titles(grp(k), "Mid-Level")) :
          k \in {GroupKey(r) : r \in dt} }

\* aggregated_with_techs: detected_techs GROUP BY company_normalized, company, week_start
aggregated_with_techs(cleaned, config) ==
    LET dt == detected_techs(cleaned, config)
        grp(k) == {r \in dt : GroupKey(r) = k}
        titles(g, s) == Cardinality({r.title : r \in {x \in g : x.seniority = s}})
    IN  { StatsRow(k, Cardinality({r.title : r \in grp(k)}),
                   SortedList({r.tech_name : r \in grp(k)}),
                   LocationList(grp(k)),
                   titles(grp(k), "Senior"), titles(grp(k), "Junior"),
                   titles(grp(k), "Lead"), titles(grp(k), "Mid-Level")) :
          k \in {GroupKey(r) : r \in dt} }

\* companies_without_techs: weekly_jobs LEFT JOIN detected_techs ON company_normalized
\* and week_start WHERE dt.company_normalized IS NULL, grouped the same way
companies_without_techs(cleaned, config) ==
    LET dt == detected_techs(cleaned, config)
        unmatched == {w \in weekly_jobs(cleaned) :
                        ~\E d \in dt : /\ d.company_normalized = w.company_normalized
                                       /\ d.week_start = w.week_start}
        grp(k) == {w \in unmatched : GroupKey(w) = k}
        titles(g, s) ==
            Cardinality({w.title : w \in {x \in g : fallback_seniority(x.title) = s}})
    IN  { StatsRow(k, Cardinality({w.title : w \in grp(k)}), <<>>,
                   LocationList(grp(k)),
                   titles(grp(k), "Senior"), titles(grp(k), "Junior"),
                   titles(grp(k), "Lead"), titles(grp(k), "Mid-Level")) :
          k \in {GroupKey(w) : w \in unmatched} }

\* SELECT * FROM aggregated_with_techs UNION ALL SELECT * FROM companies_without_techs
StatsQuery(cleaned, config) ==
    aggregated_with_techs(cleaned, config) \cup companies_without_techs(cleaned, config)

\* the tuple inserted for a row of the frame; tech_stack = tech_array joined by ","
CompanyStatsRow(row) ==
    [company_normalized |-> row.company_normalized, company |-> row.company,
     week_start |-> row.week_start, jobs_posted |-> row.jobs_posted,
     tech_stack |-> Join(row.tech_array, <<",">>)]

company_stats_asset ==
    /\ IF Cardinality(tech_config) = 0
       THEN /\ outcome' = Returned("company_stats_asset", 0, "tech_config table is empty")
            /\ UNCHANGED company_stats
       ELSE LET df == StatsQuery(cleaned_jobs, tech_config)
            IN  \* DELETE FROM company_stats, then the INSERT of every row
                /\ company_stats' = {CompanyStatsRow(row) : row \in df}
                /\ outcome' =
                     IF df = {}
                     THEN \* the mean of no rows is None: f"{avg_jobs_per_week:.1f}"
                          Raised("company_stats_asset", "TypeError")
                     ELSE Returned("company_stats_asset", Cardinality(df), "")
    /\ UNCHANGED <<raw_jobs, tech_config, cleaned_jobs, lead_scores>>

----------------------------------------------------------------------------
(* The Lead Scorer: lead_scores_asset.                                     *)
(* A score before rounding is a fraction <<n, d>> with d > 0; the stored   *)
(* scores are in hundredths.  The code computes in floating point; the     *)
(* fractions are the exact values of its formulas.                         *)

\* target_techs without the WHERE clause: every technology counts as a target
target_techs_unfiltered(config) == config

\* SELECT tech_name, score_weight FROM tech_config WHERE is_target = true
target_techs(config) == {t \in config : t.is_target}

RECURSIVE SumWeights(_)
SumWeights(T) ==
    IF T = {} THEN 0
    ELSE LET t == CHOOSE x \in T : TRUE
         IN  t.score_weight + SumWeights(T \ {t})

\* max_tech_score summed over every technology of tech_config, target or not
max_tech_score_all_techs(config) == SumWeights(config)

\* max_tech_score: SUM(score_weight) FROM target_techs
max_tech_score(config) == SumWeights(target_techs(config))

\* matched_tech_weight summed over every technology of tech_config, target or not
matched_tech_weight_any_tech(tech_stack, config) ==
    SumWeights({t \in config : Contains(tech_stack, t.tech_name)})

\* COALESCE((SELECT SUM(t.score_weight) FROM target_techs t
\*           WHERE w.tech_stack LIKE '%' || t.tech_name || '%'), 0)
matched_tech_weight(tech_stack, config) ==
    SumWeights({t \in target_techs(config) : Contains(tech_stack, t.tech_name)})

\* The orders the window ORDER BY week_start may give the rows of company_stats:
\* rows of one week_start come in any order.
WindowOrders(stats) ==
    LET n == Cardinality(stats)
    IN  { f \in [1..n -> stats] :
            /\ \A i, j \in 1..n : i # j => f[i] # f[j]
            /\ \A i, j \in 1..n : i < j => f[i].week_start <= f[j].week_start }

\* LAG(jobs_posted, 1) OVER (PARTITION BY company_normalized ORDER BY week_start)
Lag(row, order) ==
    LET i == CHOOSE k \in DOMAIN order : order[k] = row
        before == {k \in 1..(i - 1) :
                     order[k].company_normalized = row.company_normalized}
    IN  IF before = {} THEN NULL ELSE Some(order[Max(before)].jobs_posted)

\* velocity_score without LEAST(..., 100): the growth rate as it is
velocity_score_uncapped(jobs_posted, jobs_last_week) ==
    IF IsNull(jobs_last_week) \/ Coalesce(jobs_last_week, 0) = 0 THEN <<100, 1>>
    ELSE <<(jobs_posted - jobs_last_week[1]) * 100, jobs_last_week[1]>>

\* CASE WHEN jobs_last_week = 0 OR jobs_last_week IS NULL THEN 100
\*      ELSE LEAST((jobs_posted - jobs_last_week)::FLOAT / jobs_last_week * 100, 100) END
velocity_score(jobs_posted, jobs_last_week) ==
    IF IsNull(jobs_last_week) \/ Coalesce(jobs_last_week, 0) = 0 THEN <<100, 1>>
    ELSE LET last == jobs_last_week[1]
         IN  IF (jobs_posted - last) * 100 > 100 * last THEN <<100, 1>>
             ELSE <<(jobs_posted - last) * 100, last>>

\* CASE WHEN max_possible_weight = 0 THEN 0
\*      ELSE matched_tech_weight / max_possible_weight * 100 END
tech_match_score(matched, max_possible_weight) ==
    IF max_possible_weight = 0 THEN <<0, 1>>
    ELSE <<matched * 100, max_possible_weight>>

\* jobs_posted::FLOAT / MAX(jobs_posted) OVER () * 100, the window being every
\* row of company_tech_scores
volume_score(jobs_posted, stats) ==
    <<jobs_posted * 100, Max({r.jobs_posted : r \in stats})>>

\* ROUND(x, 2), in hundredths
Round2(q) == RoundDiv(100 * q[1], q[2])

\* composite_score clamped to [0, 100]
composite_score_clamped(v, t, o) ==
    Max({0, Min({10000,
        RoundDiv(40 * v[1] * t[2] * o[2] + 35 * t[1] * v[2] * o[2] + 25 * o[1] * v[2] * t[2],
                 v[2] * t[2] * o[2])})})

\* ROUND(velocity_score * 0.4 + tech_match_score * 0.35 + volume_score * 0.25, 2)
composite_score(v, t, o) ==
    RoundDiv(40 * v[1] * t[2] * o[2] + 35 * t[1] * v[2] * o[2] + 25 * o[1] * v[2] * t[2],
             v[2] * t[2] * o[2])

\* one row of scored, as the final SELECT rounds it
ScoredRow(row, stats, config, order) ==
    LET last == Lag(row, order)
        v == velocity_score(row.jobs_posted, last)
        t == tech_match_score(matched_tech_weight(row.tech_stack, config),
                              max_tech_score(config))
        o == volume_score(row.jobs_posted, stats)
    IN  [company_normalized |-> row.company_normalized, company |-> row.company,
         week_start |-> row.week_start, jobs_this_week |-> row.jobs_posted,
         jobs_last_week |-> Coalesce(last, 0),
         velocity_score |-> Round2(v), tech_match_score |-> Round2(t),
         volume_score |-> Round2(o), composite_score |-> composite_score(v, t, o),
         score_metadata |-> row.tech_stack]

\* WHERE week_start = (SELECT MAX(week_start) FROM scored)
latest_week(stats) == Max({r.week_start : r \in stats})

ScoreQuery(stats, config, order) ==
    { ScoredRow(row, stats, config, order) :
      row \in {r \in stats : r.week_start = latest_week(stats)} }

\* the Lead Scorer with DELETE FROM lead_scores issued before the query
lead_scores_asset_delete_first ==
    /\ IF Cardinality(target_techs(tech_config)) = 0
       THEN /\ outcome' = Returned("lead_scores_asset", 0,
                                   "No target technologies configured")
            /\ UNCHANGED lead_scores
       ELSE \E order \in WindowOrders(company_stats) :
              LET df == ScoreQuery(company_stats, tech_config, order)
              IN  IF Cardinality(df) = 0
                  THEN /\ outcome' = Returned("lead_scores_asset", 0, "No data to score")
                       /\ lead_scores' = {}
                  ELSE /\ lead_scores' = df
                       /\ outcome' = Returned("lead_scores_asset", Cardinality(df), "")
    /\ UNCHANGED <<raw_jobs, tech_config, cleaned_jobs, company_stats>>

lead_scores_asset ==
    /\ IF Cardinality(target_techs(tech_config)) = 0
       THEN /\ outcome' = Returned("lead_scores_asset", 0,
                                   "No target technologies configured")
            /\ UNCHANGED lead_scores
       ELSE \E order \in WindowOrders(company_stats) :
              LET df == ScoreQuery(company_stats, tech_config, order)
              IN  IF Cardinality(df) = 0
                  THEN /\ outcome' = Returned("lead_scores_asset", 0, "No data to score")
                       /\ UNCHANGED lead_scores
                  ELSE \* DELETE FROM lead_scores, then the INSERT of every row
                       /\ lead_scores' = df
                       /\ outcome' = Returned("lead_scores_asset", Cardinality(df), "")
    /\ UNCHANGED <<raw_jobs, tech_config, cleaned_jobs, company_stats>>

----------------------------------------------------------------------------
(* The Exporter: export_dashboard_data.  It writes lead_scores_latest.csv  *)
(* and company_trends.csv, copies of lead_scores and company_stats, and    *)
(* summary.json; the run's outcome carries the files.  The summary's       *)
(* avg_composite_score and tech_distribution are left out.                 *)

\* SUM(CASE WHEN composite_score >= 80 THEN 1 ELSE 0 END)
hot_leads(leads) == Cardinality({r \in leads : r.composite_score >= 8000})

\* warm_leads counting from above 50 only
warm_leads_above_50(leads) ==
    Cardinality({r \in leads : r.composite_score > 5000 /\ r.composite_score < 8000})

\* SUM(CASE WHEN composite_score >= 50 AND composite_score < 80 THEN 1 ELSE 0 END)
warm_leads(leads) ==
    Cardinality({r \in leads : r.composite_score >= 5000 /\ r.composite_score < 8000})

\* SUM(CASE WHEN composite_score < 50 THEN 1 ELSE 0 END)
cold_leads(leads) == Cardinality({r \in leads : r.composite_score < 5000})

\* the summary dict: the SUMs and MAX of no rows are NULL, written as 0 and "N/A"
summary_stats(leads) ==
    [total_companies |-> Cardinality(leads),
     hot_leads |-> hot_leads(leads),
     warm_leads |-> warm_leads(leads),
     cold_leads |-> cold_leads(leads),
     latest_week |-> IF leads = {} THEN NULL
                     ELSE Some(Max({r.week_start : r \in leads}))]

export_dashboard_data ==
    /\ outcome' = Returned("export_dashboard_data",
                           [lead_scores_latest |-> lead_scores,
                            company_trends |-> company_stats,
                            summary |-> summary_stats(lead_scores)], "")
    /\ UNCHANGED <<raw_jobs, tech_config, cleaned_jobs, company_stats, lead_scores>>

----------------------------------------------------------------------------
(* Stage faults.  Each stage issues DELETE FROM <table> and the INSERT as  *)
(* two statements on the connection, with no BEGIN/COMMIT around them, so  *)
(* the DELETE is committed when it returns.  A stage fault (the store      *)
(* becoming unreachable, the process dying) between the two statements     *)
(* ends the run with the table emptied.                                    *)

cleaned_jobs_asset_fault ==
    /\ cleaned_jobs' = {}
    /\ outcome' = Raised("cleaned_jobs_asset", "stage fault")
    /\ UNCHANGED <<raw_jobs, tech_config, company_stats, lead_scores>>

company_stats_asset_fault ==
    /\ Cardinality(tech_config) # 0
    /\ company_stats' = {}
    /\ outcome' = Raised("company_stats_asset", "stage fault")
    /\ UNCHANGED <<raw_jobs, tech_config, cleaned_jobs, lead_scores>>

lead_scores_asset_fault ==
    /\ Cardinality(target_techs(tech_config)) # 0
    /\ company_stats # {}
    /\ lead_scores' = {}
    /\ outcome' = Raised("lead_scores_asset", "stage fault")
    /\ UNCHANGED <<raw_jobs, tech_config, cleaned_jobs, company_stats>>

----------------------------------------------------------------------------
(* Specifications.                                                         *)

IngestDedup == Ingest(DedupPostings, 1..MaxTime)

NextNormalizer == IngestDedup \/ cleaned_jobs_asset

IngestPipeline == Ingest(PipelinePostings, {1})

Next ==
    \/ IngestPipeline
    \/ ConfigureTech
    \/ cleaned_jobs_asset
    \/ company_stats_asset
    \/ lead_scores_asset

\* postings of the runs with stage faults: one dedup key, with and without a date
FaultPostings == {P1, P5}

IngestFault == Ingest(FaultPostings, {1})

NextFaults ==
    \/ IngestFault
    \/ ConfigureTech
    \/ cleaned_jobs_asset
    \/ company_stats_asset
    \/ lead_scores_asset
    \/ cleaned_jobs_asset_fault
    \/ company_stats_asset_fault
    \/ lead_scores_asset_fault

\* postings of the detection runs: a title with "sr.", and capitals in title
\* and description
DetectPostings == {P3, P7}

\* the rows an operator may insert in the detection runs: the keyword of Py
\* stored in lower case or capitalised
DetectCatalogue ==
    { TechRow(Str_Go, <<Str_golang, Str_go>>, TRUE, 1) } \cup
    { TechRow(Str_Py, <<kw>>, TRUE, 1) : kw \in {Str_py, Str_Py} }

IngestDetect == Ingest(DetectPostings, {1})

ConfigureDetect ==
    /\ \E row \in DetectCatalogue : InsertTech(row)
    /\ outcome' = Returned("tech_config", 0, "")
    /\ UNCHANGED <<raw_jobs, cleaned_jobs, company_stats, lead_scores>>

NextDetect ==
    \/ IngestDetect
    \/ ConfigureDetect
    \/ cleaned_jobs_asset
    \/ company_stats_asset

\* the pipeline up to the Aggregator over titles, descriptions and keywords of
\* either letter case
SpecDetect == Init /\ [][NextDetect]_vars

\* postings of the ingestion runs: job 1 as first listed and as edited, and job 2
IngestPostings == {P1, P2, P6}

\* the scraped_at values of the ingestion runs, in any order from run to run
ScrapeTimes == {1, 2}

\* what a scrape may list: job 1 at either time in either form, job 2 at time 1
IngestEntries ==
    {Scraped(p, t) : p \in IngestPostings \ {P2}, t \in ScrapeTimes} \cup {Scraped(P2, 1)}

IngestBatches == BatchesWithRepeats(IngestEntries)

IngestRepeats ==
    /\ \E jobs \in IngestBatches : raw_jobs_asset(jobs)
    /\ UNCHANGED <<tech_config, cleaned_jobs, company_stats, lead_scores>>

NextIngest == IngestRepeats

\* successive ingestion runs over any batches, repeated job_ids included
SpecIngest == Init /\ [][NextIngest]_vars

\* postings of the quality-check runs: one title of one company at two
\* locations, and a duplicate
CheckPostings == {P1, P5, P8}

IngestCheck == Ingest(CheckPostings, ScrapeTimes)

NextChecks ==
    \/ IngestCheck
    \/ cleaned_jobs_asset
    \/ check_deduplication_effectiveness

\* the Normalizer followed by its deduplication check
SpecChecks == Init /\ [][NextChecks]_vars

\* postings of the seniority runs
SeniorityPostings == {Q1, Q2, Q3, Q4}

IngestSeniority == Ingest(SeniorityPostings, {1})

NextSeniority ==
    \/ IngestSeniority
    \/ ConfigureDetect
    \/ cleaned_jobs_asset
    \/ company_stats_asset

\* the pipeline up to the Aggregator over titles of every seniority bucket
SpecSeniority == Init /\ [][NextSeniority]_vars

\* a company_stats row left by an earlier run
EarlierStats ==
    { CompanyStatsRow(StatsRow(<<Lower(Str_Ab), Str_Ab, 0>>, 1, <<Str_Go>>, <<>>,
                               0, 0, 0, 1)) }

\* the warehouse file as the pipeline may find it: no rows, or the
\* company_stats of an earlier run with tech_config since emptied
InitEarlyReturn ==
    /\ raw_jobs = {}
    /\ tech_config = {}
    /\ cleaned_jobs = {}
    /\ company_stats \in {{}, EarlierStats}
    /\ lead_scores = {}
    /\ outcome = Returned("init", 0, "")

IngestEarlyReturn == Ingest(FaultPostings, ScrapeTimes)

NextEarlyReturn ==
    \/ IngestEarlyReturn
    \/ ConfigureTech
    \/ cleaned_jobs_asset
    \/ company_stats_asset
    \/ lead_scores_asset
    \/ export_dashboard_data

\* the whole pipeline over a posting whose duplicate has no posting_date, so
\* that a later run of a stage may find nothing to write
SpecEarlyReturn == InitEarlyReturn /\ [][NextEarlyReturn]_vars

\* the pipeline with stage faults between a stage's DELETE and its INSERT
SpecFaults == Init /\ [][NextFaults]_vars

\* the whole pipeline over postings of several weeks and an edited tech_config
Spec == Init /\ [][Next]_vars

\* ingestion and Normalizer runs over postings that share dedup keys
SpecNormalizer == Init /\ [][NextNormalizer]_vars

----------------------------------------------------------------------------
(* Claims about the Normalizer.                                            *)

\* the claim's dedup key of a row: lowercase+trim(company), lowercase+trim(title),
\* location with null as the empty string
NormalizedTriple(r) ==
    <<Trim(Lower(r.company)), Trim(Lower(r.title)), Coalesce(r.location, <<>>)>>

\* C1: after any run of the Normalizer over any raw_jobs set, cleaned_jobs holds
\* at most one row per normalized (company, title, location) triple.
C1_AtMostOneRowPerDedupKey ==
    \A a, b \in cleaned_jobs :
        NormalizedTriple(a) = NormalizedTriple(b) => a = b

\* C1 witness: the Normalizer ran over raw rows of which two share a triple,
\* and one row survives for them.
C1_Witness ==
    /\ outcome.op = "cleaned_jobs_asset"
    /\ outcome.status = "ok"
    /\ \E a, b \in raw_jobs :
         /\ a # b
         /\ NormalizedTriple(a) = NormalizedTriple(b)
         /\ a.company # b.company
         /\ IsNull(a.location) /\ ~IsNull(b.location)
         /\ Cardinality({c \in cleaned_jobs :
                           NormalizedTriple(c) = NormalizedTriple(a)}) = 1

\* C7: when raw_jobs is empty the Normalizer completes without raising, returns
\* a cleaned count of 0 and leaves cleaned_jobs empty.
C7_EmptyInputReturnsZero ==
    (outcome.op = "cleaned_jobs_asset" /\ raw_jobs = {}) =>
        /\ outcome.status = "ok"
        /\ outcome.value = 0
        /\ cleaned_jobs = {}

\* C8: running the Normalizer again on the same raw_jobs set leaves
\* cleaned_jobs as the run before left it.
C8_NormalizerIdempotent ==
    [][ ( /\ outcome.op = "cleaned_jobs_asset" /\ outcome.status = "ok"
          /\ outcome'.op = "cleaned_jobs_asset" /\ outcome'.status = "ok"
          /\ raw_jobs' = raw_jobs )
        => cleaned_jobs' = cleaned_jobs ]_vars

----------------------------------------------------------------------------
(* Claims about the Aggregator.                                            *)

\* the (company_normalized, week_start) pairs that occur among the cleaned jobs
CleanedPairs ==
    {<<w.company_normalized, w.week_start>> : w \in weekly_jobs(cleaned_jobs)}

\* C2: after a run of the Aggregator every (company_normalized, week_start) pair
\* of cleaned_jobs appears in exactly one company_stats row.  Stated for the runs
\* that reach the write, those over a tech_config that holds a row (over an empty
\* tech_config the stage returns before it writes, and no pair appears at all).
C2_EveryPairExactlyOnce ==
    (outcome.op = "company_stats_asset" /\ outcome.status = "ok"
        /\ tech_config # {}) =>
        \A pair \in CleanedPairs :
            Cardinality({r \in company_stats :
                           <<r.company_normalized, r.week_start>> = pair}) = 1

\* C3: after a run of the Aggregator, jobs_posted of every company-week row is
\* the number of distinct titles among all cleaned jobs of that company in that
\* week, tech-matching or not.
C3_JobsPostedCountsAllTitles ==
    (outcome.op = "company_stats_asset" /\ outcome.status = "ok") =>
        \A r \in company_stats :
            r.jobs_posted =
                Cardinality({w.title : w \in {x \in weekly_jobs(cleaned_jobs) :
                                /\ x.company_normalized = r.company_normalized
                                /\ x.company = r.company
                                /\ x.week_start = r.week_start}})

----------------------------------------------------------------------------
(* Claims about the Lead Scorer.                                           *)

\* C5: a Lead Scorer run with no target tech in tech_config does not raise,
\* returns 0 with a diagnostic and adds no LeadScore row.
C5_NoTargetShortCircuits ==
    [][ ( /\ outcome'.op = "lead_scores_asset"
          /\ \A t \in tech_config' : ~t.is_target ) =>
            /\ outcome'.status = "ok"
            /\ outcome'.value = 0
            /\ outcome'.diag = "No target technologies configured"
            /\ lead_scores' \subseteq lead_scores ]_vars

\* C5 witness: the Lead Scorer has just run with no target tech, over a
\* company_stats that holds rows to score.
C5_Witness ==
    /\ outcome.op = "lead_scores_asset"
    /\ outcome.value = 0
    /\ tech_config # {}
    /\ target_techs(tech_config) = {}
    /\ company_stats # {}

\* C6: after every completed run of the Lead Scorer every lead_scores row is of
\* the latest week_start now in company_stats.
C6_RebuiltForLatestWeek ==
    (outcome.op = "lead_scores_asset" /\ outcome.status = "ok") =>
        \A r \in lead_scores :
            /\ company_stats # {}
            /\ r.week_start = latest_week(company_stats)

\* C9: in every row the Lead Scorer writes, tech_match_score and volume_score
\* are in [0,100], velocity_score is at most 100, and velocity_score is negative
\* exactly when jobs_last_week > jobs_this_week (scores in hundredths).
C9_ScoreBounds ==
    \A r \in lead_scores :
        /\ 0 <= r.tech_match_score /\ r.tech_match_score <= 10000
        /\ 0 <= r.volume_score /\ r.volume_score <= 10000
        /\ r.velocity_score <= 10000
        /\ (r.velocity_score < 0) <=> (r.jobs_last_week > r.jobs_this_week)

\* C9 witness: a written row whose hiring shrank, with a partial tech match and
\* less than the top volume.
C9_Witness ==
    \E r \in lead_scores :
        /\ r.jobs_last_week > r.jobs_this_week
        /\ r.velocity_score < 0
        /\ 0 < r.tech_match_score /\ r.tech_match_score < 10000
        /\ 0 < r.volume_score /\ r.volume_score < 10000

\* C10: volume_score of a scored company is jobs_this_week over the largest
\* jobs_this_week of the scored week, times 100 (in hundredths).
C10_VolumeOverLatestWeek ==
    \A r \in lead_scores :
        r.volume_score =
            RoundDiv(10000 * r.jobs_this_week,
                     Max({q.jobs_this_week : q \in lead_scores}))

----------------------------------------------------------------------------
(* Claims about the replace-all write of a stage.                          *)

\* C4: a stage run that fails leaves its output table holding the rows it held
\* before the run.
C4_FailedStageKeepsPreviousRows ==
    [][ outcome'.status = "raised" =>
            /\ outcome'.op = "cleaned_jobs_asset" => cleaned_jobs' = cleaned_jobs
            /\ outcome'.op = "company_stats_asset" => company_stats' = company_stats
            /\ outcome'.op = "lead_scores_asset" => lead_scores' = lead_scores ]_vars

----------------------------------------------------------------------------
(* The Lead Scorer over company_stats tables of a wider range of job       *)
(* counts.  The scorer reads company_stats and tech_config only; the runs  *)
(* start from a company_stats the Aggregator has written and a tech_config *)
(* an operator has filled, the other tables left empty.                    *)

\* largest jobs_posted of a company-week row in these runs
MaxJobs == 5
\* largest score_weight of a tech_config row in these runs
MaxWeight == 2

\* the tech_stack strings of the rows: tech names joined by ","
ScorerStacks == { Join(techs, <<",">>) : techs \in {<<>>, <<Str_Go>>, <<Str_Go, Str_Py>>} }

\* a company-week slot of company_stats: no row, or one row
ScorerSlot(cn, co, wk, jobs, stacks) ==
    {{}} \cup
    { {[company_normalized |-> cn, company |-> co, week_start |-> wk,
        jobs_posted |-> j, tech_stack |-> s]} : j \in jobs, s \in stacks }

\* company "ab" in weeks 0 and 7 (in week 7 also under the spelling "AB"),
\* company "cd" in week 7
ScorerStats ==
    { a \cup b \cup c \cup d :
        a \in ScorerSlot(Trim(Lower(Str_Ab)), Str_Ab, 0, 1..MaxJobs, {Str_empty}),
        b \in ScorerSlot(Trim(Lower(Str_Ab)), Str_Ab, 7, 1..MaxJobs, ScorerStacks),
        c \in ScorerSlot(Trim(Lower(Str_Cd)), Str_Cd, 7, 1..MaxJobs, {Str_empty}),
        d \in ScorerSlot(Trim(Lower(Str_AB)), Str_AB, 7, {1},
                          {Str_empty, Join(<<Str_Go, Str_Py>>, <<",">>)}) }

ScorerConfigs ==
    { g \cup p :
        g \in { {TechRow(Str_Go, <<Str_golang, Str_go>>, t, 1)} : t \in BOOLEAN },
        p \in {{}} \cup { {TechRow(Str_Py, <<Str_py>>, t, w)} :
                             t \in BOOLEAN, w \in 0..MaxWeight } }

InitScorer ==
    /\ raw_jobs = {}
    /\ cleaned_jobs = {}
    /\ company_stats \in ScorerStats
    /\ tech_config \in ScorerConfigs
    /\ lead_scores = {}
    /\ outcome = Returned("init", 0, "")

NextScorer == lead_scores_asset \/ export_dashboard_data

\* runs of the Lead Scorer and of the Exporter over the tables above
SpecScorer == InitScorer /\ [][NextScorer]_vars

----------------------------------------------------------------------------
(* Claims about the scores of a lead row (scores in hundredths).           *)

\* the company_stats rows of the company of r, other than r's own, of r's week
\* or of an earlier one
RowsNotAfter(r) ==
    { s \in company_stats :
        /\ s.company_normalized = r.company_normalized
        /\ s.week_start <= r.week_start
        /\ ~(s.company = r.company /\ s.week_start = r.week_start) }

\* C11: velocity_score of every lead row is 100 when its jobs_last_week is 0,
\* as it is for a company with no row before this one; otherwise it is
\* min(100, (jobs_this_week - jobs_last_week) / jobs_last_week * 100), with no
\* lower clamp.
C11_VelocityFormula ==
    \A r \in lead_scores :
        /\ RowsNotAfter(r) = {} => r.jobs_last_week = 0
        /\ r.velocity_score =
             IF r.jobs_last_week = 0 THEN 10000
             ELSE Min({10000,
                       RoundDiv(10000 * (r.jobs_this_week - r.jobs_last_week),
                                r.jobs_last_week)})

\* C11 witness: the scorer wrote a row at the cap (growth above 100%), a row
\* of a company with no earlier week and the largest job count, and a row
\* whose hiring shrank, scored below zero.
C11_Witness ==
    /\ \E r \in lead_scores :
         /\ r.jobs_last_week > 0 /\ r.jobs_this_week > 2 * r.jobs_last_week
         /\ r.velocity_score = 10000
    /\ \E r \in lead_scores :
         /\ RowsNotAfter(r) = {} /\ r.jobs_this_week = MaxJobs
         /\ r.velocity_score = 10000
    /\ \E r \in lead_scores :
         /\ r.jobs_last_week > r.jobs_this_week
         /\ r.velocity_score < 0 /\ r.velocity_score > -10000

\* the target technologies whose name occurs in a tech_stack string
TargetsIn(stack) ==
    {t \in tech_config : t.is_target /\ Contains(stack, t.tech_name)}

\* C12: tech_match_score of every lead row is 0 when the target weights sum to
\* 0; otherwise it is 100 times the weight of the target techs whose name occurs
\* in the row's tech_stack over the weight of all target techs, so a tech_stack
\* holding every target tech scores 100.
C12_TechMatchFormula ==
    \A r \in lead_scores :
        LET targets == {t \in tech_config : t.is_target}
            total == SumWeights(targets)
            matched == SumWeights(TargetsIn(r.score_metadata))
        IN  /\ r.tech_match_score =
                 IF total = 0 THEN 0 ELSE RoundDiv(10000 * matched, total)
            /\ (total # 0 /\ TargetsIn(r.score_metadata) = targets)
                 => r.tech_match_score = 10000

\* C12 witness: one run wrote a row matching a part of the target weight, a
\* row matching every target tech and a row matching none.
C12_Witness ==
    /\ \E r \in lead_scores :
         0 < r.tech_match_score /\ r.tech_match_score < 10000
    /\ \E r \in lead_scores :
         /\ Cardinality(TargetsIn(r.score_metadata)) = 2
         /\ r.tech_match_score = 10000
    /\ \E r \in lead_scores :
         TargetsIn(r.score_metadata) = {} /\ r.tech_match_score = 0

\* the three scores of a lead row before rounding, as fractions <<n, d>>
UnroundedScores(r) ==
    [v |-> velocity_score(r.jobs_this_week,
                          IF r.jobs_last_week = 0 THEN NULL ELSE Some(r.jobs_last_week)),
     t |-> tech_match_score(matched_tech_weight(r.score_metadata, tech_config),
                            max_tech_score(tech_config)),
     o |-> volume_score(r.jobs_this_week, company_stats)]

\* C13: composite_score of every lead row is 0.40 * velocity_score + 0.35 *
\* tech_match_score + 0.25 * volume_score rounded to 2 decimals, not clamped to
\* [0,100]; for velocity 100, tech_match 50 and volume 20 it is 62.5.
C13_CompositeFormula ==
    \A r \in lead_scores :
        LET s == UnroundedScores(r)
            d == s.v[2] * s.t[2] * s.o[2]
            vh == 100 * s.v[1] * s.t[2] * s.o[2]
            th == 100 * s.t[1] * s.v[2] * s.o[2]
            oh == 100 * s.o[1] * s.v[2] * s.t[2]
        IN  /\ r.composite_score = RoundDiv(40 * vh + 35 * th + 25 * oh, 100 * d)
            /\ (r.velocity_score = 10000 /\ r.tech_match_score = 5000
                  /\ r.volume_score = 2000) => r.composite_score = 6250

\* C13 witness: the scorer wrote the row of the example, velocity 100,
\* tech_match 50 and volume 20, with composite 62.5.
C13_Witness ==
    \E r \in lead_scores :
        /\ r.velocity_score = 10000 /\ r.tech_match_score = 5000
        /\ r.volume_score = 2000 /\ r.composite_score = 6250

\* C14: after a run of the Lead Scorer that wrote its rows, lead_scores holds
\* exactly one row per company_normalized that has a company_stats row in the
\* latest week.
C14_OneLeadRowPerCompany ==
    (outcome.op = "lead_scores_asset" /\ outcome.status = "ok"
        /\ outcome.value > 0) =>
        \A s \in {x \in company_stats : x.week_start = latest_week(company_stats)} :
            Cardinality({r \in lead_scores :
                           r.company_normalized = s.company_normalized}) = 1

----------------------------------------------------------------------------
(* Claims about ingestion.                                                 *)

\* C15: an ingestion run over a batch changes, of a row whose job_id the batch
\* lists, last_scraped_at only, and leaves every other row as it was.
C15_ExistingJobKeepsItsFields ==
    [][ \A jobs \in IngestBatches :
          raw_jobs_asset(jobs) =>
            \A r \in raw_jobs :
                IF \E i \in DOMAIN jobs : jobs[i].job_id = r.job_id
                THEN \E r2 \in raw_jobs' :
                        [r2 EXCEPT !.last_scraped_at = r.last_scraped_at] = r
                ELSE r \in raw_jobs' ]_vars

\* C15 witness: an ingestion run has moved last_scraped_at of a row it saw
\* again, beside a row of another job_id it left alone.
C15_Witness ==
    /\ outcome.op = "raw_jobs_asset"
    /\ outcome.status = "ok"
    /\ outcome.value = 0
    /\ \E r, q \in raw_jobs :
         /\ r.job_id # q.job_id
         /\ r.first_scraped_at < r.last_scraped_at
         /\ r.title = P6.title
         /\ q.first_scraped_at = q.last_scraped_at

\* C16: after any sequence of ingestion runs no two raw_jobs rows share a job_id.
C16_JobIdUnique ==
    \A a, b \in raw_jobs : a.job_id = b.job_id => a = b

\* C17: after any sequence of ingestion runs every raw_jobs row has
\* first_scraped_at <= last_scraped_at.
C17_FirstNotAfterLast ==
    \A r \in raw_jobs : r.first_scraped_at <= r.last_scraped_at

----------------------------------------------------------------------------
(* Claims about the Exporter.                                              *)

\* C18: in the Exporter's summary hot_leads counts the lead_scores rows with
\* composite_score >= 80, warm_leads those from 50 up to but not 80, cold_leads
\* those below 50, and the three add up to total_companies.
C18_SummaryBuckets ==
    outcome.op = "export_dashboard_data" =>
        LET sm == outcome.value.summary
            hot == {r \in lead_scores : r.composite_score >= 8000}
            warm == {r \in lead_scores : 5000 <= r.composite_score /\ r.composite_score < 8000}
            cold == {r \in lead_scores : r.composite_score < 5000}
        IN  /\ sm.hot_leads = Cardinality(hot)
            /\ sm.warm_leads = Cardinality(warm)
            /\ sm.cold_leads = Cardinality(cold)
            /\ sm.total_companies = Cardinality(lead_scores)
            /\ sm.hot_leads + sm.warm_leads + sm.cold_leads = sm.total_companies
            /\ \A r \in lead_scores :
                 Cardinality({b \in {hot, warm, cold} : r \in b}) = 1

\* C18 witness: the Exporter summarised a hot, a warm and a cold lead, one of
\* them exactly on the 50 boundary.
C18_Witness ==
    /\ outcome.op = "export_dashboard_data"
    /\ outcome.value.summary.hot_leads = 1
    /\ outcome.value.summary.warm_leads = 1
    /\ outcome.value.summary.cold_leads = 1
    /\ \E r \in lead_scores : r.composite_score = 5000

----------------------------------------------------------------------------
(* Claims about tech detection and seniority in the Aggregator.            *)

\* C19: the tech-matched aggregation path and the no-tech fallback path put
\* every title the Aggregator has read in the same seniority bucket.
C19_SameSeniorityOnBothPaths ==
    (outcome.op = "company_stats_asset" /\ outcome.status = "ok"
        /\ tech_config # {}) =>
        \A w \in weekly_jobs(cleaned_jobs) :
            seniority(w.title) = fallback_seniority(w.title)

\* a keyword of tech t occurs, letter case apart, in the title or the
\* description of job w
KeywordOccurs(w, t) ==
    \E i \in DOMAIN t.keywords :
        \/ Contains(Lower(w.title), Lower(t.keywords[i]))
        \/ Contains(Lower(Coalesce(w.description, <<>>)), Lower(t.keywords[i]))

\* C20: after a run of the Aggregator a company-week row lists a tech exactly
\* when a keyword of the tech occurs, letter case apart, in the title or the
\* description of a job of that company and week.
C20_DetectedIffKeywordOccurs ==
    (outcome.op = "company_stats_asset" /\ outcome.status = "ok"
        /\ tech_config # {}) =>
        /\ \A w \in weekly_jobs(cleaned_jobs), t \in tech_config :
              KeywordOccurs(w, t) =>
                  \E r \in company_stats :
                      /\ GroupKey(r) = GroupKey(w)
                      /\ Contains(r.tech_stack, t.tech_name)
        /\ \A r \in company_stats, t \in tech_config :
              Contains(r.tech_stack, t.tech_name) =>
                  \E w \in weekly_jobs(cleaned_jobs) :
                      GroupKey(w) = GroupKey(r) /\ KeywordOccurs(w, t)

----------------------------------------------------------------------------
(* Claims about jobs_last_week.                                            *)

\* the company_stats rows of the company of lead row r in weeks before r's
EarlierWeeks(r) ==
    { s \in company_stats :
        /\ s.company_normalized = r.company_normalized
        /\ s.week_start < r.week_start }

\* C21: after a run of the Lead Scorer that wrote its rows, jobs_last_week of
\* every lead row is the jobs_posted of its company in the latest earlier
\* week_start of company_stats, and 0 when the company has no earlier week.
C21_JobsLastWeekIsPrecedingWeek ==
    (outcome.op = "lead_scores_asset" /\ outcome.status = "ok"
        /\ outcome.value > 0) =>
        \A r \in lead_scores :
            IF EarlierWeeks(r) = {} THEN r.jobs_last_week = 0
            ELSE \E s \in EarlierWeeks(r) :
                    /\ s.week_start = Max({e.week_start : e \in EarlierWeeks(r)})
                    /\ r.jobs_last_week = s.jobs_posted

----------------------------------------------------------------------------
(* Claims about the rows the Normalizer keeps.                             *)

\* the raw_jobs rows that share the dedup key of cleaned row c
RawGroup(c) ==
    {r \in raw_jobs : NormalizedTriple(r) = NormalizedTriple(c)}

\* C22: after a run of the Normalizer, first_seen of every cleaned_jobs row is
\* the minimum first_scraped_at and last_seen the maximum last_scraped_at over
\* the raw_jobs rows of its dedup key.
C22_SeenSpansTheGroup ==
    outcome.op = "cleaned_jobs_asset" =>
        \A c \in cleaned_jobs :
            /\ RawGroup(c) # {}
            /\ \E r \in RawGroup(c) : c.first_seen = r.first_scraped_at
            /\ \A r \in RawGroup(c) : c.first_seen <= r.first_scraped_at
            /\ \E r \in RawGroup(c) : c.last_seen = r.last_scraped_at
            /\ \A r \in RawGroup(c) : c.last_seen >= r.last_scraped_at

\* C22 witness: the Normalizer merged two raw rows of one key, first_seen from
\* the one scraped first and last_seen from the other.
C22_Witness ==
    /\ outcome.op = "cleaned_jobs_asset"
    /\ \E c \in cleaned_jobs : \E a, b \in RawGroup(c) :
         /\ a.first_scraped_at < b.first_scraped_at
         /\ a.last_scraped_at < b.last_scraped_at
         /\ c.first_seen = a.first_scraped_at
         /\ c.last_seen = b.last_scraped_at

\* C23: after a run of the Normalizer, company, title, description, url and
\* source of every cleaned_jobs row are those of one raw_jobs row of its dedup
\* key, a row of the earliest first_scraped_at of the group.
C23_FieldsOfEarliestRow ==
    outcome.op = "cleaned_jobs_asset" =>
        \A c \in cleaned_jobs :
            \E rep \in RawGroup(c) :
                /\ \A r \in RawGroup(c) : rep.first_scraped_at <= r.first_scraped_at
                /\ c.company = rep.company
                /\ c.title = rep.title
                /\ c.description = rep.description
                /\ c.url = rep.url
                /\ c.source = rep.source

\* C23 witness: the Normalizer merged two raw rows of one key that differ in
\* every descriptive field and kept those of the row scraped first, the one
\* of the larger job_id.
C23_Witness ==
    /\ outcome.op = "cleaned_jobs_asset"
    /\ \E c \in cleaned_jobs : \E a, b \in RawGroup(c) :
         /\ a.first_scraped_at < b.first_scraped_at
         /\ a.job_id > b.job_id
         /\ a.company # b.company /\ a.title # b.title
         /\ a.description # b.description
         /\ a.url # b.url /\ a.source # b.source
         /\ c.company = a.company /\ c.title = a.title
         /\ c.description = a.description
         /\ c.url = a.url /\ c.source = a.source

----------------------------------------------------------------------------
(* Claims about seniority and the deduplication check.                     *)

\* title holds pattern, letter case aside
TitleHas(title, pattern) == Contains(Lower(title), pattern)

TitleSenior(title) ==
    TitleHas(title, <<"s","e","n","i","o","r">>) \/ TitleHas(title, <<"s","r",".">>)
TitleJunior(title) ==
    TitleHas(title, <<"j","u","n","i","o","r">>) \/ TitleHas(title, <<"j","r",".">>)
TitleLead(title) ==
    TitleHas(title, <<"l","e","a","d">>)
        \/ TitleHas(title, <<"p","r","i","n","c","i","p","a","l">>)

\* C24: the seniority column of the detection query is Senior for a title with
\* 'senior' or 'sr.', else Junior for one with 'junior' or 'jr.', else Lead for
\* one with 'lead' or 'principal', else Mid-Level, letter case aside.
C24_SeniorityFirstMatchWins ==
    (outcome.op = "company_stats_asset" /\ tech_config # {}) =>
        \A d \in detected_techs(cleaned_jobs, tech_config) :
            /\ TitleSenior(d.title) => d.seniority = "Senior"
            /\ (~TitleSenior(d.title) /\ TitleJunior(d.title)) => d.seniority = "Junior"
            /\ (~TitleSenior(d.title) /\ ~TitleJunior(d.title) /\ TitleLead(d.title))
                  => d.seniority = "Lead"
            /\ (~TitleSenior(d.title) /\ ~TitleJunior(d.title) /\ ~TitleLead(d.title))
                  => d.seniority = "Mid-Level"

\* C24 witness: the Aggregator ran over a title with both 'senior' and 'lead',
\* classified Senior, and over one with 'jr.' and 'lead', classified Junior.
C24_Witness ==
    /\ outcome.op = "company_stats_asset"
    /\ \E d, e \in detected_techs(cleaned_jobs, tech_config) :
         /\ TitleHas(d.title, <<"s","e","n","i","o","r">>)
         /\ TitleHas(d.title, <<"l","e","a","d">>)
         /\ d.seniority = "Senior"
         /\ TitleHas(e.title, <<"j","r",".">>)
         /\ TitleHas(e.title, <<"l","e","a","d">>)
         /\ e.seniority = "Junior"

\* C26: check_deduplication_effectiveness passes on every cleaned_jobs table
\* written by the Normalizer: it fails exactly when two rows of the table share
\* the dedup key (company_normalized, title_normalized, location).
C26_DedupCheckPasses ==
    outcome.op = "check_deduplication_effectiveness" =>
        (outcome.value.passed <=>
            ~\E x, y \in cleaned_jobs :
                x # y /\ NormalizedTriple(x) = NormalizedTriple(y))

\* C27: in every row of the Aggregator's query result, of either path,
\* senior_count + junior_count + lead_count + mid_count = jobs_posted.
C27_SeniorityCountsSumToJobsPosted ==
    (outcome.op = "company_stats_asset" /\ tech_config # {}) =>
        \A row \in StatsQuery(cleaned_jobs, tech_config) :
            row.senior_count + row.junior_count + row.lead_count + row.mid_count
                = row.jobs_posted

\* C27 witness: the Aggregator ran over a company and week with titles of two
\* seniority buckets, one of the titles matched by two techs.
C27_Witness ==
    /\ outcome.op = "company_stats_asset"
    /\ \E row \in aggregated_with_techs(cleaned_jobs, tech_config) :
         /\ row.jobs_posted >= 2
         /\ row.senior_count >= 1
         /\ row.junior_count >= 1
         /\ Len(row.tech_array) = 2
         /\ \E d, e \in detected_techs(cleaned_jobs, tech_config) :
              /\ d.title = e.title /\ d.tech_name # e.tech_name
              /\ GroupKey(d) = <<row.company_normalized, row.company, row.week_start>>

----------------------------------------------------------------------------
(* Claims about early returns.                                             *)

\* C25: a run of the Aggregator over an empty tech_config leaves company_stats
\* as it was, and a run of the Lead Scorer with no target tech, or one that
\* returns 0 for want of rows to score, leaves lead_scores as it was.
C25_EarlyReturnLeavesTable ==
    [][ /\ ( /\ outcome'.op = "company_stats_asset"
             /\ \/ tech_config = {}
                \/ outcome'.status = "ok" /\ outcome'.value = 0 ) =>
                company_stats' = company_stats
        /\ ( /\ outcome'.op = "lead_scores_asset"
             /\ \/ \A t \in tech_config : ~t.is_target
                \/ company_stats = {}
                \/ outcome'.status = "ok" /\ outcome'.value = 0 ) =>
                lead_scores' = lead_scores ]_vars

\* C25 witness: the Lead Scorer, with a target tech configured, has found no
\* row to score and returned, the rows of an earlier run still in lead_scores.
C25_Witness ==
    /\ outcome.op = "lead_scores_asset"
    /\ outcome.diag = "No data to score"
    /\ target_techs(tech_config) # {}
    /\ company_stats = {}
    /\ lead_scores # {}

=============================================================================
